---- MODULE Spec2Model ----
(***************************************************************************)
(* Model of the Modbus slave of src/index.js (class ModbusSlave): the      *)
(* CRC-16, the frame builder makePDU, the frame parser parsePDU, the       *)
(* request handlers for functions 0x03 and 0x10, the error responder, the  *)
(* socket 'data' callback, the tag store (this.tags / tags.json) and the   *)
(* web view handlers.                                                      *)
(*                                                                         *)
(* Frames are sequences of bytes.  JavaScript arrays are 0-based; the      *)
(* operator At reads them the way JS does (undefined past the end).        *)
(***************************************************************************)
EXTENDS Integers, Sequences, FiniteSets, TLC

(***************************************************************************)
(* JavaScript values that are not numbers.  Both are encoded as negative   *)
(* integers; every number the handlers store or compare with them is >= 0. *)
(***************************************************************************)
Undefined == -1
NaN == -2

IsNum(x) == x \notin {Undefined, NaN}

\* arr[i] in JavaScript, i counted from 0
At(arr, i) == IF i >= 0 /\ i < Len(arr) THEN arr[i + 1] ELSE Undefined

\* ToInt32 as applied by the bitwise operators (<<, |, ^) to their operands
ToInt32(x) == IF IsNum(x) THEN x ELSE 0

\* a + b on numbers; undefined or NaN on either side gives NaN
JsAdd(a, b) == IF IsNum(a) /\ IsNum(b) THEN a + b ELSE NaN

\* x << 8 (operands here are bytes, so no 32-bit overflow)
Shl8(x) == ToInt32(x) * 256

\* Array.prototype.slice(from, to) on a sequence, 0-based, to exclusive
Slice(arr, from, to) ==
    LET t == IF to > Len(arr) THEN Len(arr) ELSE IF to < 0 THEN 0 ELSE to
    IN  IF from >= t THEN <<>> ELSE [k \in 1..(t - from) |-> arr[from + k]]

(***************************************************************************)
(* Bitwise operators on non-negative integers, four bits at a time.        *)
(***************************************************************************)
RECURSIVE Xor1(_, _, _)
Xor1(a, b, n) ==
    IF n = 0 THEN 0
    ELSE (((a % 2) + (b % 2)) % 2) + 2 * Xor1(a \div 2, b \div 2, n - 1)

RECURSIVE Or1(_, _, _)
Or1(a, b, n) ==
    IF n = 0 THEN 0
    ELSE (IF (a % 2) + (b % 2) > 0 THEN 1 ELSE 0) + 2 * Or1(a \div 2, b \div 2, n - 1)

XorNibble == [a \in 0..15 |-> [b \in 0..15 |-> Xor1(a, b, 4)]]

OrNibble == [a \in 0..15 |-> [b \in 0..15 |-> Or1(a, b, 4)]]

\* a ^ b
RECURSIVE BitXor(_, _)
BitXor(a, b) ==
    IF a = 0 THEN b
    ELSE IF b = 0 THEN a
    ELSE XorNibble[a % 16][b % 16] + 16 * BitXor(a \div 16, b \div 16)

\* a | b
RECURSIVE BitOr(_, _)
BitOr(a, b) ==
    IF a = 0 THEN b
    ELSE IF b = 0 THEN a
    ELSE OrNibble[a % 16][b % 16] + 16 * BitOr(a \div 16, b \div 16)

(***************************************************************************)
(* CRC_16(message): crc = 0xFFFF; for each byte: crc ^= byte, then eight   *)
(* times crc = crc & 1 ? (crc >> 1) ^ 0xA001 : crc >> 1.                   *)
(***************************************************************************)
CrcInit == 65535
CrcPoly == 40961

\* the eight shifts without the polynomial
RECURSIVE CrcShiftPlain(_, _)
CrcShiftPlain(crc, j) == IF j = 8 THEN crc ELSE CrcShiftPlain(crc \div 2, j + 1)

RECURSIVE CrcShift(_, _)
CrcShift(crc, j) ==
    IF j = 8 THEN crc
    ELSE IF crc % 2 = 1 THEN CrcShift(BitXor(crc \div 2, CrcPoly), j + 1)
    ELSE CrcShift(crc \div 2, j + 1)

\* the loop over i in from .. to - 1, entered with crc; a range of several
\* bytes is run as its first half followed by its second half (crc is never
\* negative: testing it has the first half evaluated before the second)
RECURSIVE CrcLoop(_, _, _, _)
CrcLoop(message, crc, from, to) ==
    IF to <= from \/ crc < 0 THEN crc
    ELSE IF to = from + 1 THEN CrcShift(BitXor(crc, ToInt32(At(message, from))), 0)
    ELSE CrcLoop(message, CrcLoop(message, crc, from, (from + to) \div 2),
                 (from + to) \div 2, to)

CRC_16(message) == CrcLoop(message, CrcInit, 0, Len(message))

\* this.CRC_16(message) === crc  (=== is false when crc is NaN)
validateCRC_16(message, crc) == IsNum(crc) /\ CRC_16(message) = crc

(***************************************************************************)
(* makePDU(slaveId, functionId, ...args): every arg is a pair              *)
(* <<value, width>>.  The bytes go through Uint8ClampedArray, which clamps *)
(* to 0..255 (NaN and undefined become 0).                                 *)
(***************************************************************************)
Clamp(x) == IF ~IsNum(x) THEN 0 ELSE IF x > 255 THEN 255 ELSE IF x < 0 THEN 0 ELSE x

ClampAll(arr) == [k \in 1..Len(arr) |-> Clamp(arr[k])]

ArgBytes(arg) ==
    IF arg[2] = 1 THEN <<arg[1]>>
    ELSE IF arg[2] = 2 THEN <<arg[1] \div 256, arg[1] % 256>>
    ELSE <<>>

\* for (let arg of args) over the args from .. to - 1: the bytes pushed, a
\* range of several args as its first half followed by its second half
RECURSIVE PushArgs(_, _, _)
PushArgs(args, from, to) ==
    IF to <= from THEN <<>>
    ELSE IF to = from + 1 THEN ArgBytes(args[to])
    ELSE PushArgs(args, from, (from + to) \div 2) \o PushArgs(args, (from + to) \div 2, to)

\* makePDU with the checksum computed over the values as pushed
makePDURawCrc(slaveId, functionId, args) ==
    LET untypedArray == <<slaveId, functionId>> \o PushArgs(args, 0, Len(args))
        crc == CRC_16(untypedArray)
    IN  ClampAll(untypedArray \o <<crc % 256, crc \div 256>>)

makePDU(slaveId, functionId, args) ==
    LET untypedArray == <<slaveId, functionId>> \o PushArgs(args, 0, Len(args))
        crc == CRC_16(ClampAll(untypedArray))
    IN  ClampAll(untypedArray \o <<crc % 256, crc \div 256>>)

\* makeError(request, errcode)
makeError(request, errcode) ==
    makePDU(At(request, 0), BitOr(ToInt32(At(request, 1)), 128), <<<<errcode, 1>>>>)

(***************************************************************************)
(* parsePDU(PDU): PDU is a sequence of pairs <<byte, tag>>; tag 0 marks a  *)
(* one-byte value, 1 the high byte and 2 the low byte of a two-byte value. *)
(* The values are collected first, the checksum is validated afterwards.   *)
(* Reading data[i + 1][0] for a high byte that is the last element of data *)
(* is a read of a property of undefined: a TypeError.                      *)
(***************************************************************************)
\* the two bytes of a value taken the other way round
PushedLowFirst(data, k) ==
    IF data[k][2] = 0 THEN <<data[k][1]>>
    ELSE IF data[k][2] = 1 THEN <<JsAdd(data[k][1], Shl8(data[k + 1][1]))>>
    ELSE <<>>

\* the value(s) pushed to result.data for element k (1-based) of data
Pushed(data, k) ==
    IF data[k][2] = 0 THEN <<data[k][1]>>
    ELSE IF data[k][2] = 1 THEN <<JsAdd(Shl8(data[k][1]), data[k + 1][1])>>
    ELSE <<>>

\* for (let i in data) over the elements from .. to - 1: the values pushed,
\* a range of several elements as its first half followed by its second half
RECURSIVE Collect(_, _, _)
Collect(data, from, to) ==
    IF to <= from THEN <<>>
    ELSE IF to = from + 1 THEN Pushed(data, to)
    ELSE Collect(data, from, (from + to) \div 2) \o Collect(data, (from + to) \div 2, to)

parsePDU(PDU) ==
    LET n == Len(PDU)
        validatablePart == [k \in 1..(n - 2) |-> PDU[k][1]]
        data == Slice(PDU, 2, n - 2)
        crc == JsAdd(Shl8(PDU[n][1]), PDU[n - 1][1])
    IN  IF Len(data) > 0 /\ data[Len(data)][2] = 1
        THEN [type |-> "TypeError", slaveId |-> PDU[1][1], functionId |-> PDU[2][1],
              data |-> <<>>]
        ELSE IF validateCRC_16(validatablePart, crc)
        THEN [type |-> "result", slaveId |-> PDU[1][1], functionId |-> PDU[2][1],
              data |-> Collect(data, 0, Len(data))]
        ELSE [type |-> "null", slaveId |-> PDU[1][1], functionId |-> PDU[2][1],
              data |-> <<>>]

(***************************************************************************)
(* The tag array.  this.tags[i] = v past the end of a JavaScript array     *)
(* lengthens it (the holes read as undefined).                             *)
(***************************************************************************)
TagCount == 1000
MaxIndex == 999

SetTag(arr, i, v) ==
    IF i < Len(arr) THEN [arr EXCEPT ![i + 1] = v]
    ELSE [k \in 1..(i + 1) |-> IF k <= Len(arr) THEN arr[k]
                                ELSE IF k = i + 1 THEN v ELSE Undefined]

\* the steps i in lo .. hi - 1 of the loop below, entered with arr; a range
\* of several steps is run as its first half followed by its second half
\* (the test of Len(arr) has the first half evaluated before the second)
RECURSIVE WriteSteps(_, _, _, _, _)
WriteSteps(arr, values, from, lo, hi) ==
    IF hi <= lo \/ Len(arr) < 0 THEN arr
    ELSE IF hi = lo + 1 THEN SetTag(arr, lo, At(values, lo - from + 3))
    ELSE WriteSteps(WriteSteps(arr, values, from, lo, (lo + hi) \div 2),
                    values, from, (lo + hi) \div 2, hi)

\* the loop reading data.data[i - from + 2]: the byte count is stored first
WriteLoopShifted(arr, values, from, to) ==
    WriteSteps(arr, <<0>> \o values, from, from, to)

\* for (i = from; i < to; i++) this.tags[i] = data.data[i - from + 3]
WriteLoop(arr, values, from, to) == WriteSteps(arr, values, from, from, to)

\* data.data[0] > 999 || (data.data[0] + data.data[1] - 1) > 999
\* (a comparison with NaN is false)
JsGt(a, b) == IsNum(a) /\ a > b

\* the check with the bound one too high
OutOfRangeLoose(d) ==
    LET sum == JsAdd(At(d, 0), At(d, 1))
    IN  JsGt(At(d, 0), MaxIndex) \/ (IsNum(sum) /\ sum - 1 > MaxIndex + 1)

\* the check of the start address alone
OutOfRangeStartOnly(d) == JsGt(At(d, 0), MaxIndex)

\* the check of the last address alone
OutOfRangeSumOnly(d) ==
    LET sum == JsAdd(At(d, 0), At(d, 1))
    IN  IsNum(sum) /\ sum - 1 > MaxIndex

OutOfRange(d) ==
    LET sum == JsAdd(At(d, 0), At(d, 1))
    IN  JsGt(At(d, 0), MaxIndex) \/ (IsNum(sum) /\ sum - 1 > MaxIndex)

(***************************************************************************)
(* A handler returns what it returned or threw, the tag array and the tags *)
(* file as it leaves them, and whether it wrote the file.                  *)
(***************************************************************************)
Returned(frame, t, f, w) ==
    [type |-> "return", value |-> frame, tags |-> t, file |-> f, saved |-> w]

Thrown(t, f) ==
    [type |-> "TypeError", value |-> <<>>, tags |-> t, file |-> f, saved |-> FALSE]

\* this.tags before the constructor has assigned it
Unset == <<Undefined>>

\* saveTags(tags = []): tagsToWrite = this.tags || tags; the result is the
\* new contents of the file (an array, even an empty one, is truthy)
saveTagsArg(thisTags, arg) == arg

saveTags(thisTags, arg) == IF thisTags # Unset THEN thisTags ELSE arg

\* this.tags.slice(start, start + quantity)
ReadTagsShifted(t, start, quantity) == Slice(t, start + 1, start + 1 + quantity)

ReadTags(t, start, quantity) == Slice(t, start, start + quantity)

\* data.data[1] !== (data.data[2] / 2)
ByteCountCheckSkipped(d) == FALSE

ByteCountMismatch(d) ==
    ~(IsNum(At(d, 2)) /\ At(d, 2) % 2 = 0 /\ At(d, 1) = At(d, 2) \div 2)

\* handle0x03Request answering a failed checksum with the code of the range check
handle0x03RequestCode2(request, t, f) ==
    LET refactoredData == << <<At(request, 0), 0>>, <<At(request, 1), 0>>,
                             <<At(request, 2), 1>>, <<At(request, 3), 2>>,
                             <<At(request, 4), 1>>, <<At(request, 5), 2>>,
                             <<At(request, 6), 1>>, <<At(request, 7), 2>> >>
        data == parsePDU(refactoredData)
        d == data.data
        regs == ReadTags(t, At(d, 0), At(d, 1))
    IN  IF data.type = "TypeError" THEN Thrown(t, f)
        ELSE IF data.type = "null" THEN Returned(makeError(request, 2), t, f, FALSE)
        ELSE IF OutOfRange(d) THEN Returned(makeError(request, 2), t, f, FALSE)
        ELSE Returned(makePDU(data.slaveId, data.functionId,
                              << <<At(d, 1) * 2, 1>> >>
                              \o [k \in 1..Len(regs) |-> <<regs[k], 2>>]), t, f, FALSE)

\* handle0x03Request(request)
handle0x03Request(request, t, f) ==
    LET refactoredData == << <<At(request, 0), 0>>, <<At(request, 1), 0>>,
                             <<At(request, 2), 1>>, <<At(request, 3), 2>>,
                             <<At(request, 4), 1>>, <<At(request, 5), 2>>,
                             <<At(request, 6), 1>>, <<At(request, 7), 2>> >>
        data == parsePDU(refactoredData)
        d == data.data
        regs == ReadTags(t, At(d, 0), At(d, 1))
    IN  IF data.type = "TypeError" THEN Thrown(t, f)
        ELSE IF data.type = "null" THEN Returned(makeError(request, 4), t, f, FALSE)
        ELSE IF OutOfRange(d) THEN Returned(makeError(request, 2), t, f, FALSE)
        ELSE Returned(makePDU(data.slaveId, data.functionId,
                              << <<At(d, 1) * 2, 1>> >>
                              \o [k \in 1..Len(regs) |-> <<regs[k], 2>>]), t, f, FALSE)

\* the tagged bytes handle0x10Request hands to parsePDU
Refactored0x10(request) ==
    LET tail == Slice(request, 7, Len(request))
    IN  << <<At(request, 0), 0>>, <<At(request, 1), 0>>,
           <<At(request, 2), 1>>, <<At(request, 3), 2>>,
           <<At(request, 4), 1>>, <<At(request, 5), 2>>,
           <<At(request, 6), 0>> >>
        \o [k \in 1..Len(tail) |-> <<tail[k], ((k - 1) % 2) + 1>>]

\* handle0x10Request with the loop over the tags placed before the checks of
\* the byte count and of the number of values
handle0x10RequestEager(request, t, f) ==
    LET data == parsePDU(Refactored0x10(request))
        d == data.data
        written == WriteLoop(t, d, At(d, 0), At(d, 0) + At(d, 1))
    IN  IF data.type = "TypeError" THEN Thrown(t, f)
        ELSE IF data.type = "null" THEN Returned(makeError(request, 4), t, f, FALSE)
        ELSE IF OutOfRange(d) THEN Returned(makeError(request, 2), t, f, FALSE)
        ELSE IF ByteCountMismatch(d)
        THEN Returned(makeError(request, 3), written, f, FALSE)
        ELSE IF At(d, 1) # Len(d) - 3
        THEN Returned(makeError(request, 3), written, f, FALSE)
        ELSE Returned(makePDU(data.slaveId, data.functionId,
                              << <<At(d, 0), 2>>, <<At(d, 1), 2>> >>),
                      written, saveTags(written, <<>>), TRUE)

\* handle0x10Request(request)
handle0x10Request(request, t, f) ==
    LET data == parsePDU(Refactored0x10(request))
        d == data.data
        written == WriteLoop(t, d, At(d, 0), At(d, 0) + At(d, 1))
    IN  IF data.type = "TypeError" THEN Thrown(t, f)
        ELSE IF data.type = "null" THEN Returned(makeError(request, 4), t, f, FALSE)
        ELSE IF OutOfRange(d) THEN Returned(makeError(request, 2), t, f, FALSE)
        ELSE IF ByteCountMismatch(d) THEN Returned(makeError(request, 3), t, f, FALSE)
        \* data.data[1] !== data.data.length - 3
        ELSE IF At(d, 1) # Len(d) - 3 THEN Returned(makeError(request, 3), t, f, FALSE)
        ELSE Returned(makePDU(data.slaveId, data.functionId,
                              << <<At(d, 0), 2>>, <<At(d, 1), 2>> >>),
                      written, saveTags(written, <<>>), TRUE)

\* handleModbusRequest validating the checksum of a request of another
\* function before refusing the function
handleModbusRequestChecked(request, t, f) ==
    IF At(request, 1) = 3 THEN handle0x03Request(request, t, f)
    ELSE IF At(request, 1) = 16 THEN handle0x10Request(request, t, f)
    ELSE IF validateCRC_16(Slice(request, 0, Len(request) - 2),
                           JsAdd(Shl8(At(request, Len(request) - 1)),
                                 At(request, Len(request) - 2)))
    THEN Returned(makeError(request, 1), t, f, FALSE)
    ELSE Returned(makeError(request, 4), t, f, FALSE)

\* handleModbusRequest(request)
handleModbusRequest(request, t, f) ==
    IF At(request, 1) = 3 THEN handle0x03Request(request, t, f)
    ELSE IF At(request, 1) = 16 THEN handle0x10Request(request, t, f)
    ELSE Returned(makeError(request, 1), t, f, FALSE)

(***************************************************************************)
(* The web view: serveApi then serveStatic run for every HTTP request.     *)
(* res counts the calls of writeHead and end on the response object;       *)
(* body is what end() was given (the tags, for /api).                      *)
(***************************************************************************)
ApiUrls == {"/api", "/api/tags"}

\* url.startsWith('/api')
StartsWithApi(url) == url \in ApiUrls

NoBody == <<>>

FreshRes == [heads |-> 0, ends |-> 0, body |-> NoBody]

\* res.writeHead(...); res.end(body)
Reply(r, body) == [heads |-> r.heads + 1, ends |-> r.ends + 1, body |-> body]

\* a snapshot whose last register is not the one of the tag array
handleApiRequestTorn(r, t) == Reply(r, [t EXCEPT ![TagCount] = 0])

\* handleApiRequest(req, res)
handleApiRequest(r, t) == Reply(r, t)

\* serveApi(req, res)
serveApi(method, url, r, t) ==
    IF method # "GET" THEN Reply(r, NoBody)
    ELSE IF StartsWithApi(url) THEN handleApiRequest(r, t)
    ELSE r

\* serveStatic(req, res): TRUE when fs.readFile is started for the request
serveStatic(method, url) == ~StartsWithApi(url)

\* the callback of fs.readFile: res.writeHead(200, ...); res.end(data).
\* writeHead throws on a response whose head has been written; the call is
\* counted, end is not reached
FileReply(r, data) ==
    IF r.heads > 0 THEN [r EXCEPT !.heads = r.heads + 1] ELSE Reply(r, data)

(***************************************************************************)
(* Request frames.                                                         *)
(***************************************************************************)
DeviceId == 1

\* unit ids of other devices on the line
OtherIds == {2}

MaxQuantity == 2

Starts == {998, 999, 1000}
Quantities == (0..MaxQuantity) \cup {65535}
Values == <<258, 65535>>

Word(v) == <<v \div 256, v % 256>>

WithCrc(body) == LET crc == CRC_16(body) IN body \o <<crc % 256, crc \div 256>>

WithBadCrc(body) == LET crc == CRC_16(body) IN body \o <<(crc + 1) % 256, crc \div 256>>

Header(id, fn, start, quantity) == <<id, fn>> \o Word(start) \o Word(quantity)

\* the values vs as bytes, each high byte first
Words(vs) == [k \in 1..(2 * Len(vs)) |-> Word(vs[(k + 1) \div 2])[2 - (k % 2)]]

\* the value lists of the write frames: the two values in turn, from either one
ValueSeqs ==
    {[k \in 1..n |-> Values[((k + j) % 2) + 1]] : n \in 0..MaxQuantity, j \in 0..1}

\* byte counts tried for a write of quantity q carrying the values vs
ByteCounts(q, vs) == {(2 * q) % 256, 2 * Len(vs), 1}

ReadBodies == {Header(DeviceId, 3, s, q) : s \in Starts, q \in Quantities}

WriteBodies ==
    UNION {{Header(DeviceId, 16, s, q) \o <<bc>> \o Words(vs) : bc \in ByteCounts(q, vs)} :
           s \in Starts, q \in Quantities, vs \in ValueSeqs}

\* write frames with one byte too many between byte 7 and the checksum
OddBodies ==
    {Header(DeviceId, 16, s, q) \o <<2 * q>> \o Words(vs) \o <<7>> :
     s \in {998}, q \in 0..MaxQuantity, vs \in {v \in ValueSeqs : Len(v) <= 1}}

\* frames of 8 bytes with function 0x10, and frames of other functions
ShortBodies == {Header(DeviceId, fn, s, q) : fn \in {16, 6, 131}, s \in {998, 1000}, q \in {0, 1}}

ForeignBodies ==
    UNION {{Header(id, 3, 998, 1), Header(id, 6, 998, 1),
            Header(id, 16, 998, 1) \o <<2>> \o Word(258),
            Header(id, 16, 998, 1) \o <<2>> \o Word(258) \o <<7>>} : id \in OtherIds}

Bodies == ReadBodies \cup WriteBodies \cup OddBodies \cup ShortBodies \cup ForeignBodies

\* frames cut short by the transport, and a read frame with a trailing byte
Prefixes(frame) == {Slice(frame, 0, n) : n \in 1..(Len(frame) - 1)}

CutFrames ==
    Prefixes(WithCrc(Header(DeviceId, 3, 998, 1)))
    \cup Prefixes(WithCrc(Header(DeviceId, 16, 998, 2) \o <<4>> \o Word(258) \o Word(65535)))
    \cup {WithCrc(Header(DeviceId, 3, 998, 2)) \o <<0>>}
    \cup {<<id>> : id \in OtherIds}

Frames == {WithCrc(b) : b \in Bodies} \cup {WithBadCrc(b) : b \in Bodies} \cup CutFrames

(***************************************************************************)
(* Requests for many registers: the quantities on either side of 128, from *)
(* which on quantity * 2 no longer fits the byte of a byte count.          *)
(***************************************************************************)
LargeQuantities == {127, 128}

\* the first and the last start at which 128 registers are inside the bank
LargeStarts == {0, 872}

LargeValueSeqs ==
    {[k \in 1..n |-> Values[((k + j) % 2) + 1]] : n \in LargeQuantities, j \in 0..1}

LargeReadBodies == {Header(DeviceId, 3, s, q) : s \in LargeStarts, q \in LargeQuantities}

\* byte counts tried for a large write: 2 * quantity cut to a byte, twice
\* the number of values cut to a byte, and the highest byte
LargeWriteBodies ==
    UNION {{Header(DeviceId, 16, s, q) \o <<bc>> \o Words(vs) :
            bc \in {(2 * q) % 256, (2 * Len(vs)) % 256, 255}} :
           s \in LargeStarts, q \in LargeQuantities, vs \in LargeValueSeqs}

\* large writes of 8 bytes, with one byte after the byte count, and with
\* their last register past the end of the bank; requests of function 0x06
LargeOtherBodies ==
    UNION {{Header(DeviceId, 16, 0, q),
            Header(DeviceId, 16, 0, q) \o <<(2 * q) % 256>> \o <<7>>,
            Header(DeviceId, 16, 900, q) \o <<(2 * q) % 256>> \o Word(258),
            Header(DeviceId, 6, 0, q)} :
           q \in LargeQuantities}

LargeBodies == LargeReadBodies \cup LargeWriteBodies \cup LargeOtherBodies

LargeFrames ==
    {WithCrc(b) : b \in LargeBodies} \cup {WithBadCrc(b) : b \in LargeReadBodies}

(***************************************************************************)
(* The process.  Node runs one callback at a time: the event loop picks an *)
(* I/O event (Poll), runs its callback to the end (OnSocketData,           *)
(* OnHttpRequest) and comes back for the next event (Return).  event, sent *)
(* and res describe the callback that is running or has just run.          *)
(***************************************************************************)
VARIABLES
    tags,       \* this.tags
    tagsFile,   \* the contents of tags.json
    event,      \* the I/O event picked by the event loop
    pc,         \* "poll": waiting for an event; "callback": about to run its
                \* callback; "done": the callback has returned or thrown
    sent,       \* the frames socket.write was given by the callback of event
    saved,      \* whether the callback of event wrote tags.json
    res,        \* the HTTP response object of event
    reading,    \* the response objects of the fs.readFile calls still pending
    crashed,    \* an exception left a callback: the process is gone
    lastWrite,  \* history: per register, the value of the last acknowledged write
    call        \* a method called on its own: its arguments and what it returned

vars == <<tags, tagsFile, event, pc, sent, saved, res, reading, crashed, lastWrite, call>>

\* what parsePDU returned, before it is called
NoParse == [type |-> "none", slaveId |-> Undefined, functionId |-> Undefined, data |-> <<>>]

\* no method is called on its own
NoCall == [op |-> "none", step |-> "none", slaveId |-> Undefined, functionId |-> Undefined,
           args |-> <<>>, frame |-> <<>>, parsed |-> NoParse, crc |-> Undefined]

NoEvent == [kind |-> "none", frame |-> <<>>, method |-> "", url |-> ""]

DataEvent(f) == [kind |-> "data", frame |-> f, method |-> "", url |-> ""]

HttpEvent(m, u) == [kind |-> "http", frame |-> <<>>, method |-> m, url |-> u]

\* the events of Spec: request frames, and the dashboard's poll of /api
Events == {DataEvent(f) : f \in Frames} \cup {HttpEvent("GET", "/api")}

\* loadTags(): the default array, or the array a tags.json holds
DefaultTags == [k \in 1..TagCount |-> 0]

LoadedTags == [k \in 1..TagCount |-> 65536 - k]

\* the constructor: loadTags() returns the array of an existing tags.json, or
\* saves and returns the default array
Init ==
    /\ \/ tags = LoadedTags /\ tagsFile = LoadedTags
       \/ tags = DefaultTags /\ tagsFile = saveTags(Unset, DefaultTags)
    /\ event = NoEvent
    /\ pc = "poll"
    /\ sent = <<>>
    /\ saved = FALSE
    /\ res = FreshRes
    /\ reading = <<>>
    /\ crashed = FALSE
    /\ lastWrite = tags
    /\ call = NoCall

Poll(e) ==
    /\ pc = "poll"
    /\ event' = e
    /\ pc' = "callback"
    /\ UNCHANGED <<tags, tagsFile, sent, saved, res, reading, crashed, lastWrite, call>>

\* back to the event loop; an uncaught exception has ended the process instead
Return ==
    /\ pc = "done"
    /\ ~crashed
    /\ pc' = "poll"
    /\ event' = NoEvent
    /\ sent' = <<>>
    /\ saved' = FALSE
    /\ res' = FreshRes
    /\ UNCHANGED <<tags, tagsFile, reading, crashed, lastWrite, call>>

\* the values an acknowledged write request asks to store, read off its bytes
ReqStart(f) == At(f, 2) * 256 + At(f, 3)

ReqQuantity(f) == At(f, 4) * 256 + At(f, 5)

ReqByteCount(f) == At(f, 6)

ReqValue(f, i) == At(f, 7 + 2 * i) * 256 + At(f, 8 + 2 * i)

Acknowledged(f, out) == Len(out) = 1 /\ At(f, 1) = 16 /\ At(out[1], 1) = 16

Record(f, out, last) ==
    IF Acknowledged(f, out)
    THEN [k \in DOMAIN last |->
            IF ReqStart(f) <= k - 1 /\ k - 1 < ReqStart(f) + ReqQuantity(f)
            THEN ReqValue(f, k - 1 - ReqStart(f)) ELSE last[k]]
    ELSE last

\* Array.from(request)[0] === this.config.id
AddressedAny(request) == TRUE

Addressed(request) == At(request, 0) = DeviceId

\* socket.on('data', request => { if (request[0] === id) socket.write(handle(request)) })
OnSocketData ==
    /\ pc = "callback"
    /\ event.kind = "data"
    /\ pc' = "done"
    /\ IF Addressed(event.frame)
       THEN \E h \in {handleModbusRequest(event.frame, tags, tagsFile)} :
                /\ tags' = h.tags
                /\ tagsFile' = h.file
                /\ saved' = h.saved
                /\ sent' = IF h.type = "return" THEN <<h.value>> ELSE <<>>
                /\ crashed' = (h.type # "return")
                /\ lastWrite' = Record(event.frame, sent', lastWrite)
       ELSE UNCHANGED <<tags, tagsFile, sent, saved, crashed, lastWrite>>
    /\ UNCHANGED <<event, res, reading, call>>

\* http.createServer((req, res) => { serveApi(req, res); serveStatic(req, res) })
OnHttpRequest ==
    /\ pc = "callback"
    /\ event.kind = "http"
    /\ pc' = "done"
    /\ res' = serveApi(event.method, event.url, res, tags)
    /\ reading' = IF serveStatic(event.method, event.url)
                  THEN Append(reading, res') ELSE reading
    /\ UNCHANGED <<tags, tagsFile, event, sent, saved, crashed, lastWrite, call>>

Next ==
    \/ \E e \in Events : Poll(e)
    \/ OnSocketData
    \/ OnHttpRequest
    \/ Return

Spec == Init /\ [][Next]_vars

\* the events of SpecLarge: requests for many registers
LargeEvents == {DataEvent(f) : f \in LargeFrames}

NextLarge ==
    \/ \E e \in LargeEvents : Poll(e)
    \/ OnSocketData
    \/ Return

SpecLarge == Init /\ [][NextLarge]_vars

(***************************************************************************)
(* The web view alone: requests of any method for pages and for the API,   *)
(* and the callbacks of the file reads serveStatic has started, which      *)
(* complete in any order.                                                  *)
(***************************************************************************)
MaxReading == 2

WebMethods == {"GET", "POST"}

WebUrls == {"/", "/index.html", "/api", "/api/tags"}

WebEvents == {HttpEvent(m, u) : m \in WebMethods, u \in WebUrls}

FileEvent == [kind |-> "file", frame |-> <<>>, method |-> "", url |-> ""]

\* an HTTP request arrives (while fewer than MaxReading file reads are pending)
PollWeb(e) == Len(reading) < MaxReading /\ Poll(e)

\* the i-th pending file read completes: its callback is next, with the
\* response object it has kept
PollFile(i) ==
    /\ pc = "poll"
    /\ event' = FileEvent
    /\ pc' = "callback"
    /\ res' = reading[i]
    /\ reading' = [k \in 1..(Len(reading) - 1) |-> IF k < i THEN reading[k] ELSE reading[k + 1]]
    /\ UNCHANGED <<tags, tagsFile, sent, saved, crashed, lastWrite, call>>

\* fs.readFile(filePath, (_, data) => { res.writeHead(200, ...); res.end(data) })
OnFileRead ==
    /\ pc = "callback"
    /\ event.kind = "file"
    /\ pc' = "done"
    /\ res' = FileReply(res, NoBody)
    /\ crashed' = (res.heads > 0)
    /\ UNCHANGED <<tags, tagsFile, event, sent, saved, reading, lastWrite, call>>

NextWeb ==
    \/ \E e \in WebEvents : PollWeb(e)
    \/ \E i \in 1..Len(reading) : PollFile(i)
    \/ OnHttpRequest
    \/ OnFileRead
    \/ Return

SpecWeb == Init /\ [][NextWeb]_vars

(***************************************************************************)
(* makePDU and parsePDU called on their own: a frame is built from a unit  *)
(* id, a function id and a list of fields, then parsed with the layout of  *)
(* the same fields.                                                        *)
(***************************************************************************)
MaxFields == 2

CodecIds == {0, 1, 127, 128, 255}
CodecFunctions == {0, 3, 16, 131, 255}

\* fields <<value, width>>: of one byte, of two bytes
Fields ==
    {<<v, 1>> : v \in {0, 7, 255}} \cup {<<v, 2>> : v \in {0, 255, 256, 258, 65535}}

FieldLists == UNION {[1..n -> Fields] : n \in 0..MaxFields}

\* the rest of the process while a method is called on its own
Idle ==
    /\ tags = DefaultTags
    /\ tagsFile = DefaultTags
    /\ event = NoEvent
    /\ pc = "poll"
    /\ sent = <<>>
    /\ saved = FALSE
    /\ res = FreshRes
    /\ reading = <<>>
    /\ crashed = FALSE
    /\ lastWrite = DefaultTags

Untouched == UNCHANGED <<tags, tagsFile, event, pc, sent, saved, res, reading, crashed, lastWrite>>

InitCodec ==
    /\ Idle
    /\ call \in {[NoCall EXCEPT !.op = "codec", !.step = "args", !.slaveId = id,
                                !.functionId = fn, !.args = a] :
                 id \in CodecIds, fn \in CodecFunctions, a \in FieldLists}

\* the tags of the bytes of one field, as the handlers tag their requests
FieldTags(arg) == IF arg[2] = 1 THEN <<0>> ELSE <<1, 2>>

RECURSIVE LayoutTags(_, _)
LayoutTags(args, n) == IF n = 0 THEN <<>> ELSE LayoutTags(args, n - 1) \o FieldTags(args[n])

\* the bytes of frame tagged for parsePDU: the two ids, the fields, the checksum
Layout(frame, args) ==
    LET tagsOf == <<0, 0>> \o LayoutTags(args, Len(args)) \o <<1, 2>>
    IN  [k \in 1..Len(frame) |-> <<frame[k], tagsOf[k]>>]

\* frame = makePDU(slaveId, functionId, ...args)
Encode ==
    /\ call.op = "codec"
    /\ call.step = "args"
    /\ call' = [call EXCEPT !.frame = makePDU(call.slaveId, call.functionId, call.args),
                            !.step = "frame"]
    /\ Untouched

\* parsed = parsePDU(frame tagged with the layout of the fields)
Decode ==
    /\ call.op = "codec"
    /\ call.step = "frame"
    /\ call' = [call EXCEPT !.parsed = parsePDU(Layout(call.frame, call.args)),
                            !.step = "parsed"]
    /\ Untouched

NextCodec == Encode \/ Decode

SpecCodec == InitCodec /\ [][NextCodec]_vars

(***************************************************************************)
(* CRC_16 called on its own, on sequences of bytes.                        *)
(***************************************************************************)
MaxLen == 3

CrcBytes == {0, 1, 3, 10, 128, 255}

\* the message of the reference vector
ReferenceMessage == <<1, 3, 0, 0, 0, 10>>

Messages == UNION {[1..n -> CrcBytes] : n \in 0..MaxLen} \cup {ReferenceMessage}

InitCrc ==
    /\ Idle
    /\ call \in {[NoCall EXCEPT !.op = "crc", !.step = "args", !.frame = m] : m \in Messages}

\* crc = CRC_16(message)
ComputeCrc ==
    /\ call.op = "crc"
    /\ call.step = "args"
    /\ call' = [call EXCEPT !.crc = CRC_16(call.frame), !.step = "crc"]
    /\ Untouched

NextCrc == ComputeCrc

SpecCrc == InitCrc /\ [][NextCrc]_vars

(***************************************************************************)
(* Vocabulary of the properties.  A request is read off its bytes, a       *)
(* response off the bytes given to socket.write.                           *)
(***************************************************************************)
\* the last two bytes of f are the CRC-16, low byte first, of the bytes before
ChecksumValid ==
    [f \in Frames \cup LargeFrames |-> Len(f) >= 3
                      /\ f[Len(f) - 1] + 256 * f[Len(f)] = CRC_16(Slice(f, 0, Len(f) - 2))]

\* the callback of a request frame has run
Handled == pc = "done" /\ event.kind = "data"

\* the callback of a request frame is about to run
Handling == pc = "callback" /\ event.kind = "data"

Request == event.frame

ToDevice == At(Request, 0) = DeviceId

FunctionCode == At(Request, 1)

\* the function code of f with the high bit set (128 when f has no byte 1)
ExceptionFunction(f) ==
    IF Len(f) < 2 THEN 128 ELSE IF At(f, 1) >= 128 THEN At(f, 1) ELSE At(f, 1) + 128

\* frame is the exception response to the request f with the given code
IsException(frame, f, code) ==
    /\ Len(frame) = 5
    /\ frame[1] = At(f, 0)
    /\ frame[2] = ExceptionFunction(f)
    /\ frame[3] = code

\* frame is a success response to the request f
IsSuccess(frame, f) == Len(frame) >= 5 /\ frame[1] = At(f, 0) /\ frame[2] = At(f, 1)

\* exactly one frame was written, an exception with this code
Answered(code) == Len(sent) = 1 /\ IsException(sent[1], Request, code)

\* exactly one frame was written, a success response
Succeeded == Len(sent) = 1 /\ IsSuccess(sent[1], Request)

\* a write request of 9 + 2n bytes: n values between the byte count and the checksum
WriteShaped(f) == At(f, 1) = 16 /\ Len(f) >= 9 /\ (Len(f) - 9) % 2 = 0

ValueCount(f) == (Len(f) - 9) \div 2

\* start + quantity - 1 > 999
RangeViolated(f) == ReqStart(f) + ReqQuantity(f) - 1 > MaxIndex

\* the registers start .. start + quantity - 1 are registers of the bank
InBank(f) == ReqStart(f) <= MaxIndex /\ ~RangeViolated(f)

\* a write request that passes every validation
ValidWrite(f) ==
    /\ At(f, 0) = DeviceId
    /\ WriteShaped(f)
    /\ ChecksumValid[f]
    /\ InBank(f)
    /\ ReqByteCount(f) = 2 * ReqQuantity(f)
    /\ ValueCount(f) = ReqQuantity(f)

\* a read request that passes every validation
ValidRead(f) ==
    /\ At(f, 0) = DeviceId
    /\ At(f, 1) = 3
    /\ Len(f) = 8
    /\ ChecksumValid[f]
    /\ InBank(f)

\* the i-th (from 0) register value of a 0x03 success response
RespValue(frame, i) == At(frame, 3 + 2 * i) * 256 + At(frame, 4 + 2 * i)

(***************************************************************************)
(* C1: every request frame whose byte 0 is the device id is handled to the *)
(* end and answered with exactly one frame, a success or an exception      *)
(* response; handling never ends in a thrown error or without a response.  *)
(***************************************************************************)
C1_OneResponse ==
    (Handled /\ ToDevice) =>
        /\ ~crashed
        /\ Succeeded \/ \E code \in 1..4 : Answered(code)

(***************************************************************************)
(* C2: a request whose byte 0 is not the device id is discarded: nothing   *)
(* is written to the socket, and the tags and the tags file stay as they   *)
(* were.                                                                   *)
(***************************************************************************)
C2_ForeignDiscarded ==
    [][(Handling /\ ~ToDevice) =>
          (sent' = <<>> /\ tags' = tags /\ tagsFile' = tagsFile /\ ~saved' /\ ~crashed')]_vars

\* a frame for another device, with an unknown function code and a wrong
\* checksum, has been handled
C2_Witness ==
    /\ Handled
    /\ ~ToDevice
    /\ FunctionCode = 6
    /\ ~ChecksumValid[Request]
    /\ sent = <<>>

(***************************************************************************)
(* C3: after any sequence of requests the tag array has exactly 1000       *)
(* entries, each an integer in 0..65535.                                   *)
(***************************************************************************)
C3_BankShape ==
    /\ Len(tags) = TagCount
    /\ \A k \in 1..Len(tags) : tags[k] \in 0..65535

\* a write of two values to the last two registers has been acknowledged,
\* and the highest value was stored in one of them
C3_Witness ==
    /\ Handled
    /\ ToDevice
    /\ FunctionCode = 16
    /\ Succeeded
    /\ ReqStart(Request) = MaxIndex - 1
    /\ ReqQuantity(Request) = 2
    /\ tags[TagCount] = 65535

(***************************************************************************)
(* C4: the tags change only in the callback of a 0x10 request that is      *)
(* answered with a success response; a 0x03 request, a request answered    *)
(* with an exception, a discarded request and a query of /api leave every  *)
(* tag as it was.                                                          *)
(***************************************************************************)
C4_OnlyWritesChange ==
    [][(tags' # tags) =>
          /\ Handling
          /\ ToDevice
          /\ FunctionCode = 16
          /\ Len(sent') = 1
          /\ IsSuccess(sent'[1], Request)]_vars

\* a write request whose value differs from the register it names has been
\* refused with IllegalDataValue
C4_Witness ==
    /\ Handled
    /\ ToDevice
    /\ WriteShaped(Request)
    /\ ValueCount(Request) >= 1
    /\ ReqQuantity(Request) >= 1
    /\ ReqStart(Request) <= MaxIndex
    /\ ReqValue(Request, 0) # tags[ReqStart(Request) + 1]
    /\ Answered(3)

(***************************************************************************)
(* C5: a 0x10 request that passes all validations stores its i-th value in *)
(* tags[start + i] for every i in [0, quantity), leaves every other tag as *)
(* it was, and is answered with one frame carrying the device id, function *)
(* 0x10 and the start and quantity of the request.                         *)
(***************************************************************************)
C5_WriteApplied ==
    [][(Handling /\ ValidWrite(Request)) =>
          /\ Len(tags') = Len(tags)
          /\ \A k \in 1..Len(tags) :
                tags'[k] = IF ReqStart(Request) <= k - 1
                              /\ k - 1 < ReqStart(Request) + ReqQuantity(Request)
                           THEN ReqValue(Request, k - 1 - ReqStart(Request))
                           ELSE tags[k]
          /\ Len(sent') = 1
          /\ Len(sent'[1]) = 8
          /\ Slice(sent'[1], 0, 6)
                = Header(DeviceId, 16, ReqStart(Request), ReqQuantity(Request))]_vars

\* a valid write of the two values 258, 65535 at 998 has been handled; neither
\* is an initial value of these registers
C5_Witness ==
    /\ Handled
    /\ ValidWrite(Request)
    /\ ReqStart(Request) = 998
    /\ ReqQuantity(Request) = 2
    /\ ReqValue(Request, 0) = 258
    /\ ReqValue(Request, 1) = 65535
    /\ tags[999] = 258
    /\ tags[1000] = 65535
    /\ Succeeded

(***************************************************************************)
(* C6: a valid 0x03 read of (start, quantity) returns, in order, for each  *)
(* register the value of the most recent acknowledged write to it, or its  *)
(* initial value if there was none.                                        *)
(***************************************************************************)
C6_ReadsLastWrite ==
    (Handled /\ ValidRead(Request)) =>
        /\ Len(sent) = 1
        /\ Len(sent[1]) = 5 + 2 * ReqQuantity(Request)
        /\ \A i \in 0..(ReqQuantity(Request) - 1) :
              RespValue(sent[1], i) = lastWrite[ReqStart(Request) + i + 1]

\* a read of the registers 998 and 999 has been answered after writes had
\* stored 65535 in the first and 258 in the second
C6_Witness ==
    /\ Handled
    /\ ValidRead(Request)
    /\ ReqStart(Request) = 998
    /\ ReqQuantity(Request) = 2
    /\ lastWrite[999] = 65535
    /\ lastWrite[1000] = 258
    /\ Succeeded
    /\ RespValue(sent[1], 0) = 65535
    /\ RespValue(sent[1], 1) = 258

(***************************************************************************)
(* C7: between callbacks the tags file holds exactly the tag array, and a  *)
(* callback writes the file exactly when it is the callback of a 0x10      *)
(* request answered with a success response.                               *)
(***************************************************************************)
C7_FileFollowsTags ==
    /\ tagsFile = tags
    /\ saved <=> (Handled /\ ToDevice /\ FunctionCode = 16 /\ Succeeded)

\* an acknowledged write has changed the tags, and the file has followed
C7_Witness ==
    /\ Handled
    /\ ValidWrite(Request)
    /\ Succeeded
    /\ saved
    /\ tags \notin {DefaultTags, LoadedTags}
    /\ tagsFile = tags

(***************************************************************************)
(* C8: a 0x10 request for the device is answered by the first validation   *)
(* that fails, in the order checksum (code 4), address range (code 2),     *)
(* byte count = 2 * quantity and number of values = quantity (code 3), and *)
(* with a success response when none fails.                                *)
(***************************************************************************)
C8_FirstFailureDecides ==
    (Handled /\ ToDevice /\ FunctionCode = 16) =>
        IF ~ChecksumValid[Request] THEN Answered(4)
        ELSE IF ~InBank(Request) THEN Answered(2)
        ELSE IF ~(WriteShaped(Request)
                  /\ ReqByteCount(Request) = 2 * ReqQuantity(Request)
                  /\ ValueCount(Request) = ReqQuantity(Request)) THEN Answered(3)
        ELSE Succeeded

WellFormed(f) == (At(f, 1) = 3 /\ Len(f) = 8) \/ WriteShaped(f)

C11_Code2IffLastPastEnd ==
    (Handled /\ ToDevice /\ FunctionCode = 3 /\ Len(Request) = 8
     /\ ChecksumValid[Request]) =>
        IF RangeViolated(Request) THEN Answered(2) ELSE Succeeded

(***************************************************************************)
(* C11 amended: a 0x03 request of 8 bytes for the device with a valid      *)
(* checksum is answered with code 2 exactly when start > 999 or            *)
(* start + quantity - 1 > 999, and with a success response in every other  *)
(* case: quantity = 0 succeeds for start <= 999 and gets code 2 for        *)
(* start = 1000.                                                           *)
(***************************************************************************)
C11_Code2IffOutsideBank ==
    (Handled /\ ToDevice /\ FunctionCode = 3 /\ Len(Request) = 8
     /\ ChecksumValid[Request]) =>
        IF InBank(Request) THEN Succeeded /\ ~Answered(2)
        ELSE Answered(2) /\ ~Succeeded

\* a read of no register at address 1000, with a valid checksum, has been
\* answered with code 2
C11_Witness ==
    /\ Handled
    /\ ToDevice
    /\ FunctionCode = 3
    /\ Len(Request) = 8
    /\ ChecksumValid[Request]
    /\ ReqStart(Request) = MaxIndex + 1
    /\ ReqQuantity(Request) = 0
    /\ ~RangeViolated(Request)
    /\ Answered(2)

(***************************************************************************)
(* C12: the success response to a 0x03 request for (start, quantity) with  *)
(* start + quantity - 1 <= 999 is one byte holding quantity * 2 followed   *)
(* by exactly quantity big-endian 2-byte values, the tags start ..         *)
(* start + quantity - 1 in order, also for quantity >= 128.                *)
(***************************************************************************)
C12_ReadResponseShape ==
    (Handled /\ ValidRead(Request) /\ Succeeded) =>
        /\ Len(sent[1]) = 5 + 2 * ReqQuantity(Request)
        /\ At(sent[1], 2) = 2 * ReqQuantity(Request)
        /\ \A i \in 0..(ReqQuantity(Request) - 1) :
              RespValue(sent[1], i) = tags[ReqStart(Request) + i + 1]

(***************************************************************************)
(* C13: a 0x03 request of 8 bytes for the device whose last two bytes are  *)
(* not the CRC-16, low byte first, of its first six bytes is answered with *)
(* the exception frame of code 4 and nothing else, whatever its start and  *)
(* quantity are; no tag value is part of the response.                     *)
(***************************************************************************)
C13_BadChecksumCode4 ==
    (Handled /\ ToDevice /\ FunctionCode = 3 /\ Len(Request) = 8
     /\ ~ChecksumValid[Request]) =>
        /\ sent = << WithCrc(<<DeviceId, 131, 4>>) >>
        /\ ~crashed
        /\ ~saved

\* a read with a wrong checksum whose registers are outside the bank has
\* been answered with code 4
C13_Witness ==
    /\ Handled
    /\ ToDevice
    /\ FunctionCode = 3
    /\ Len(Request) = 8
    /\ ~ChecksumValid[Request]
    /\ ReqStart(Request) = MaxIndex + 1
    /\ ReqQuantity(Request) = 65535
    /\ Answered(4)

(***************************************************************************)
(* C14: a request for the device whose function code is neither 0x03 nor   *)
(* 0x10 is answered, whether its checksum is right, wrong or missing, with *)
(* exactly the frame of 5 bytes: byte 0 of the request, byte 1 of the      *)
(* request with the high bit set (128 when the request has no byte 1),     *)
(* code 1, and the CRC-16 of these three bytes, low byte first.            *)
(***************************************************************************)
C14_UnknownFunctionCode1 ==
    (Handled /\ ToDevice /\ FunctionCode \notin {3, 16}) =>
        /\ sent = << WithCrc(<<At(Request, 0), ExceptionFunction(Request), 1>>) >>
        /\ ~crashed
        /\ ~saved

\* a request of function 0x06 with a wrong checksum has been answered with
\* code 1 under function 0x86
C14_Witness ==
    /\ Handled
    /\ ToDevice
    /\ FunctionCode = 6
    /\ Len(Request) = 8
    /\ ~ChecksumValid[Request]
    /\ Len(sent) = 1
    /\ Slice(sent[1], 0, 3) = <<DeviceId, 134, 1>>

(***************************************************************************)
(* C15: callbacks of several connections and of the dashboard run one      *)
(* after the other, each to its end.  Whenever a callback starts or has    *)
(* ended, the tags are the result of applying the acknowledged writes in   *)
(* the order of their callbacks; every snapshot sent to the dashboard and  *)
(* every 0x03 response holds, for each register, the value of the last     *)
(* acknowledged write, never some registers of a write without the others. *)
(***************************************************************************)
C15_Serialised ==
    /\ tags = lastWrite
    /\ (pc = "done" /\ event.kind = "http" /\ res.ends > 0) => res.body = lastWrite
    /\ (Handled /\ ToDevice /\ FunctionCode = 3 /\ Succeeded) =>
          \A i \in 0..(((Len(sent[1]) - 5) \div 2) - 1) :
              RespValue(sent[1], i) = lastWrite[ReqStart(Request) + i + 1]

\* the dashboard has been sent a snapshot after a write of two registers had
\* been acknowledged; it shows both
C15_Witness ==
    /\ pc = "done"
    /\ event.kind = "http"
    /\ res.ends = 1
    /\ res.body = tags
    /\ lastWrite[TagCount - 1] = 258
    /\ lastWrite[TagCount] = 65535
    /\ res.body[TagCount - 1] = 258
    /\ res.body[TagCount] = 65535

(***************************************************************************)
(* C16: for every unit id and function id in 0..255 and every list of      *)
(* fields of one byte (0..255) and of two bytes (0..65535), parsePDU of    *)
(* the frame makePDU builds from them, tagged with the layout of the same  *)
(* fields, returns a result, not null, with the same unit id, the same     *)
(* function id and the values of the fields in the same order.             *)
(***************************************************************************)
C16_RoundTrip ==
    (call.op = "codec" /\ call.step = "parsed") =>
        /\ call.parsed.type = "result"
        /\ call.parsed.slaveId = call.slaveId
        /\ call.parsed.functionId = call.functionId
        /\ call.parsed.data = [k \in 1..Len(call.args) |-> call.args[k][1]]

\* a frame with the fields 258 (two bytes) and 255 (one byte) of unit 255
\* has been built and parsed
C16_Witness ==
    /\ call.op = "codec"
    /\ call.step = "parsed"
    /\ call.slaveId = 255
    /\ call.args = << <<258, 2>>, <<255, 1>> >>
    /\ Len(call.frame) = 7
    /\ call.parsed.data = <<258, 255>>

(***************************************************************************)
(* C17: every frame written to the socket, a 0x03 or 0x10 success response *)
(* or an exception response, consists of bytes and ends with the CRC-16 of *)
(* all its bytes before, low byte first: validateCRC_16 of the frame       *)
(* without its last two bytes accepts the checksum they hold.              *)
(***************************************************************************)
C17_ResponseChecksum ==
    \A k \in 1..Len(sent) :
        /\ Len(sent[k]) >= 5
        /\ \A b \in 1..Len(sent[k]) : sent[k][b] \in 0..255
        /\ validateCRC_16(Slice(sent[k], 0, Len(sent[k]) - 2),
                          sent[k][Len(sent[k]) - 1] + 256 * sent[k][Len(sent[k])])

\* a read of 128 registers has been answered: the byte count was stored as
\* 255 and the checksum is the one of the bytes as stored
C17_Witness ==
    /\ Handled
    /\ ToDevice
    /\ FunctionCode = 3
    /\ ReqQuantity(Request) = 128
    /\ Succeeded
    /\ Len(sent[1]) = 261
    /\ At(sent[1], 2) = 255

(***************************************************************************)
(* The Modbus CRC-16 as its definition reads, on registers of 16 bits:     *)
(* start from 0xFFFF; for each byte in turn, XOR it into the low byte,     *)
(* then 8 times shift right by one bit and XOR with 0xA001 when the bit    *)
(* shifted out was 1.                                                      *)
(***************************************************************************)
RECURSIVE ModbusBits(_, _)
ModbusBits(reg, n) ==
    IF n = 0 THEN reg
    ELSE IF reg % 2 = 1 THEN ModbusBits(Xor1(reg \div 2, 40961, 16), n - 1)
    ELSE ModbusBits(reg \div 2, n - 1)

RECURSIVE ModbusCrc(_, _)
ModbusCrc(reg, message) ==
    IF message = <<>> \/ reg < 0 THEN reg
    ELSE ModbusCrc(ModbusBits(Xor1(reg, Head(message), 16), 8), Tail(message))

(***************************************************************************)
(* C18: for every sequence of bytes CRC_16 returns the Modbus CRC-16 of    *)
(* it, a number in 0..65535; for 01 03 00 00 00 0A it returns 0xCDC5.      *)
(***************************************************************************)
C18_ModbusCrc ==
    (call.op = "crc" /\ call.step = "crc") =>
        /\ call.crc = ModbusCrc(65535, call.frame)
        /\ call.crc \in 0..65535
        /\ (call.frame = ReferenceMessage) => call.crc = 52677

\* CRC_16 has returned 0xCDC5 for the message of the reference vector
C18_Witness ==
    /\ call.op = "crc"
    /\ call.step = "crc"
    /\ call.frame = ReferenceMessage
    /\ call.crc = 52677

(***************************************************************************)
(* C19: a 0x10 request for the device with a valid checksum and a quantity *)
(* of 128 or more is answered with an exception of code 2 or 3 and leaves  *)
(* the tags as they were: no write of more than 127 registers is applied.  *)
(***************************************************************************)
C19_NoLargeWrite ==
    [][(Handling /\ ToDevice /\ FunctionCode = 16 /\ ChecksumValid[Request]
        /\ ReqQuantity(Request) >= 128) =>
          /\ Len(sent') = 1
          /\ IsException(sent'[1], Request, 2) \/ IsException(sent'[1], Request, 3)
          /\ tags' = tags
          /\ ~crashed']_vars

(***************************************************************************)
(* C20: for every HTTP request, of any method and URL, exactly one of      *)
(* serveApi and serveStatic responds: when the callback of the request has *)
(* run, either serveApi has written the head and ended the response, or    *)
(* serveStatic has started the file read whose callback will, not both;    *)
(* no response has its head written or is ended twice.                     *)
(***************************************************************************)
C20_OneHandlerResponds ==
    /\ res.heads <= 1
    /\ res.ends <= 1
    /\ \A i \in 1..Len(reading) : reading[i].heads = 0 /\ reading[i].ends = 0
    /\ (pc = "done" /\ event.kind = "http") =>
          (res.heads = 1 /\ res.ends = 1) # serveStatic(event.method, event.url)
    /\ (pc = "done" /\ event.kind = "file") => (res.heads = 1 /\ res.ends = 1)

====
